---- MODULE Spec2Model ----
(***************************************************************************)
(* Agent SDK: the AgentRegistry (src/src/agent.ts), the BaseAgent helpers  *)
(* and the units built on them (SecurityScanAgent, ReconAgent,             *)
(* ExampleCustomAgent), as a state machine over the registry's Map; the    *)
(* MCPServer adapter over that registry (SpecAdapter); one call of         *)
(* ToolExecutor.execute, step by step between its awaits (SpecTool, and    *)
(* SpecToolFair with timers that fire); registry calls left pending while  *)
(* others are made (SpecPending); and validateInput alone (SpecValidate).  *)
(*                                                                         *)
(* JavaScript values are tagged records, a promise is a record with its    *)
(* settled state, and the completion of a synchronous call is either       *)
(* "normal" or "throw".  An async function's promise is built from the     *)
(* completion of its body the way the language does it: a throw rejects,   *)
(* a returned promise is adopted, a try block catches a rejection only     *)
(* where the promise is awaited inside it.                                 *)
(***************************************************************************)
EXTENDS Integers, Sequences, FiniteSets, TLC

VARIABLES agents, call, regTime, clock, tool, pending, validation

vars == <<agents, call, regTime, clock, tool, pending, validation>>

(* ------------------------------------------------------------------ *)
(* Bounds                                                              *)
(* ------------------------------------------------------------------ *)

\* Successful registrations followed in one run (caps the ghost clock).
MaxRegs == 4

\* The largest retry count a ToolExecutor is configured with.
MaxRetries == 6

\* AgentRegistry.execute calls issued and not settled yet, at most.
MaxPending == 2

(* ------------------------------------------------------------------ *)
(* JavaScript values                                                   *)
(* ------------------------------------------------------------------ *)

Undefined == [t |-> "undefined"]
Null == [t |-> "null"]
Bool(b) == [t |-> "boolean", b |-> b]
Str(s) == [t |-> "string", s |-> s]
Num(n) == [t |-> "number", n |-> n]
Obj(f) == [t |-> "object", o |-> f]

\* new Error(message), TypeError included: error instanceof Error holds.
Error(message) == [t |-> "error", message |-> message]

\* An object literal with no property.
EmptyObj == Obj(<<>>)

\* ToBoolean, as `!input.params` and `!agent` apply it.
Truthy(v) ==
    CASE v.t = "undefined" -> FALSE
      [] v.t = "null" -> FALSE
      [] v.t = "boolean" -> v.b
      [] v.t = "string" -> v.s # ""
      [] v.t = "number" -> v.n # 0
      [] OTHER -> TRUE

\* v has the own property key.
HasKey(v, key) == v.t = "object" /\ key \in DOMAIN v.o

\* The property names every object inherits from Object.prototype.
ObjectPrototype ==
    {"constructor", "toString", "toLocaleString", "valueOf", "hasOwnProperty",
     "isPrototypeOf", "propertyIsEnumerable", "__proto__"}

\* `key in v` for an object v: an own property or an inherited one.
In(key, v) == HasKey(v, key) \/ key \in ObjectPrototype

\* v.key: the property's value, undefined when the object has none.
Prop(v, key) == IF HasKey(v, key) THEN v.o[key] ELSE Undefined

\* a || b
OrElse(a, b) == IF Truthy(a) THEN a ELSE b

(* ------------------------------------------------------------------ *)
(* Completions and promises                                            *)
(* ------------------------------------------------------------------ *)

Normal(v) == [kind |-> "normal", value |-> v]
Throw(e) == [kind |-> "throw", reason |-> e]
Fulfilled(v) == [state |-> "fulfilled", value |-> v]
Rejected(e) == [state |-> "rejected", reason |-> e]

\* A promise not settled yet.
Pending == [state |-> "pending"]

\* The promise of an async function whose body completed with c: a throw
\* rejects it, a returned promise is adopted, any other value fulfils it.
AsyncResult(c) ==
    IF c.kind = "throw" THEN Rejected(c.reason)
    ELSE IF "state" \in DOMAIN c.value THEN c.value
    ELSE Fulfilled(c.value)

\* `return p;` inside a try block: the promise is handed over as it is, so
\* its rejection is not seen by the enclosing catch.
ReturnPromise(p) == Normal(p)

\* `return await p;` inside a try block: a rejection is thrown at the await.
ReturnAwait(p) ==
    IF p.state = "rejected" THEN Throw(p.reason) ELSE Normal(p.value)

\* Calling f(...) whose result is `called`: a synchronous throw stays a throw,
\* a returned promise is awaited.
AwaitCall(called) ==
    IF called.kind = "throw" THEN called ELSE ReturnAwait(called.value)

\* String(v) as a template literal applies it to the values used here.
TemplateString(v) ==
    CASE v.t = "string" -> v.s
      [] v.t = "undefined" -> "undefined"
      [] v.t = "null" -> "null"
      [] v.t = "boolean" -> IF v.b THEN "true" ELSE "false"
      [] OTHER -> "[object Object]"

(* ------------------------------------------------------------------ *)
(* BaseAgent                                                           *)
(* ------------------------------------------------------------------ *)

\* The for loop of validateInput over requiredParams, params being truthy.
\* `param in params` throws a TypeError when params is a primitive.
RECURSIVE validateRequired(_, _)
validateRequired(params, requiredParams) ==
    IF requiredParams = <<>> THEN Normal(Undefined)
    ELSE LET param == Head(requiredParams) IN
         IF params.t # "object"
         THEN Throw(Error("Cannot use 'in' operator to search for '" \o param
                          \o "' in " \o TemplateString(params)))
         ELSE IF ~In(param, params)
         THEN Throw(Error("Missing required parameter: " \o param))
         ELSE validateRequired(params, Tail(requiredParams))

\* validateInput checking only that params is there.
validateInputParamsOnly(input, requiredParams) ==
    IF ~Truthy(Prop(input, "params"))
    THEN Throw(Error("Missing required parameters"))
    ELSE Normal(Undefined)

\* BaseAgent.validateInput(input, requiredParams): void or a thrown Error.
validateInput(input, requiredParams) ==
    IF ~Truthy(Prop(input, "params"))
    THEN Throw(Error("Missing required parameters"))
    ELSE validateRequired(Prop(input, "params"), requiredParams)

\* createOutput with data and error taken in the other order.
createOutputSwapped(success, data, error, metadata) ==
    [success |-> Bool(success), data |-> error, error |-> data,
     metadata |-> metadata]

\* BaseAgent.createOutput: the object literal { success, data, error, metadata }.
createOutput(success, data, error, metadata) ==
    [success |-> Bool(success), data |-> data, error |-> error,
     metadata |-> metadata]

\* { command, params }: the input the handlers build for validateInput.
HandlerInput(command, params) ==
    Obj([command |-> Str(command), params |-> params])

\* new Date().toISOString(): an opaque string.
Timestamp == Str("<now>")

\* The body of a private async handler: validate, build the simulated
\* result (the parameter echoed under its own name beside the fixture
\* fields), return createOutput(true, result, undefined, metadata).
HandlerBody(command, required, params, fixture, metadata) ==
    LET v == validateInput(HandlerInput(command, params), <<required>>) IN
    IF v.kind = "throw" THEN v
    ELSE Normal(createOutput(TRUE,
                    Obj((required :> Prop(params, required))
                        @@ ("timestamp" :> Timestamp) @@ fixture),
                    Undefined, Obj(metadata)))

(* ------------------------------------------------------------------ *)
(* SecurityScanAgent                                                   *)
(* ------------------------------------------------------------------ *)

portScan(params) ==
    AsyncResult(HandlerBody("port-scan", "target", params,
        [scanDuration |-> Str("2.3s")],
        [scanType |-> Str("port-scan")]))

vulnerabilityScan(params) ==
    AsyncResult(HandlerBody("vulnerability-scan", "target", params,
        [scanDuration |-> Str("5.7s")],
        [scanType |-> Str("vulnerability-scan")]))

webScan(params) ==
    AsyncResult(HandlerBody("web-scan", "url", params,
        [scanDuration |-> Str("3.2s")],
        [scanType |-> Str("web-scan")]))

sslCheck(params) ==
    AsyncResult(HandlerBody("ssl-check", "domain", params,
        [grade |-> Str("A")],
        [scanType |-> Str("ssl-check")]))

\* `const { command, params } = input`: a TypeError when input is undefined
\* or null.
Destructure(input) ==
    IF input.t \in {"undefined", "null"}
    THEN Throw(Error("Cannot destructure property 'command' of 'input' as it is "
                     \o TemplateString(input) \o "."))
    ELSE Normal(Undefined)

\* The default branch naming no command.
UnknownCommandBare(command) ==
    createOutput(FALSE, Null, Str("Unknown command"), Undefined)

\* The default branch of a dispatch switch.
UnknownCommand(command) ==
    createOutput(FALSE, Null,
                 Str("Unknown command: " \o TemplateString(command)), Undefined)

\* The catch clause of a shipped unit's execute.
UnitCatch(error) ==
    createOutput(FALSE, Null,
                 IF error.t = "error" THEN Str(error.message)
                 ELSE Str("Unknown error"),
                 Undefined)

\* try { ... } catch (error) { return h(error) } around a block that
\* completed with c.
TryCatchUnit(c) ==
    IF c.kind = "throw" THEN Normal(UnitCatch(c.reason)) ELSE c

\* The switch of SecurityScanAgent.execute: every case returns the
\* handler's promise without awaiting it.
SecurityScanSwitch(command, params) ==
    CASE command = Str("port-scan") -> ReturnPromise(portScan(params))
      [] command = Str("vulnerability-scan") ->
             ReturnPromise(vulnerabilityScan(params))
      [] command = Str("web-scan") -> ReturnPromise(webScan(params))
      [] command = Str("ssl-check") -> ReturnPromise(sslCheck(params))
      [] OTHER -> Normal(UnknownCommand(command))

SecurityScanAgent_execute(input) ==
    AsyncResult(TryCatchUnit(
        IF Destructure(input).kind = "throw" THEN Destructure(input)
        ELSE SecurityScanSwitch(Prop(input, "command"), Prop(input, "params"))))

(* ------------------------------------------------------------------ *)
(* ReconAgent                                                          *)
(* ------------------------------------------------------------------ *)

dnsLookup(params) ==
    AsyncResult(HandlerBody("dns-lookup", "domain", params,
        [records |-> Str("A,AAAA,MX,NS,TXT")],
        [recordTypes |-> Str("A,AAAA,MX,NS,TXT")]))

whoisLookup(params) ==
    AsyncResult(HandlerBody("whois", "domain", params,
        [registrar |-> Str("Example Registrar Inc.")],
        [daysUntilExpiry |-> Str("365")]))

subdomainEnum(params) ==
    AsyncResult(HandlerBody("subdomain-enum", "domain", params,
        [scanDuration |-> Str("12.5s")],
        [scanType |-> Str("subdomain-enum")]))

techDetect(params) ==
    AsyncResult(HandlerBody("tech-detect", "url", params,
        [cms |-> Str("WordPress")],
        [totalTechnologies |-> Str("5")]))

ReconSwitch(command, params) ==
    CASE command = Str("dns-lookup") -> ReturnPromise(dnsLookup(params))
      [] command = Str("whois") -> ReturnPromise(whoisLookup(params))
      [] command = Str("subdomain-enum") -> ReturnPromise(subdomainEnum(params))
      [] command = Str("tech-detect") -> ReturnPromise(techDetect(params))
      [] OTHER -> Normal(UnknownCommand(command))

ReconAgent_execute(input) ==
    AsyncResult(TryCatchUnit(
        IF Destructure(input).kind = "throw" THEN Destructure(input)
        ELSE ReconSwitch(Prop(input, "command"), Prop(input, "params"))))

(* ------------------------------------------------------------------ *)
(* ExampleCustomAgent                                                  *)
(* ------------------------------------------------------------------ *)

\* greet: the result is { message }, the name interpolated in the greeting.
greet(params) ==
    LET v == validateInput(HandlerInput("greet", params), <<"name">>) IN
    AsyncResult(
        IF v.kind = "throw" THEN v
        ELSE Normal(createOutput(TRUE,
                 Obj([message |-> Str("Hello, "
                        \o TemplateString(Prop(params, "name"))
                        \o "! Welcome to the Awesome Hacking Agent SDK.")]),
                 Undefined, Obj([timestamp |-> Timestamp]))))

\* analyze: createOutput(true, analysis) with error and metadata left out.
analyze(params) ==
    LET v == validateInput(HandlerInput("analyze", params), <<"data">>) IN
    AsyncResult(
        IF v.kind = "throw" THEN v
        ELSE Normal(createOutput(TRUE,
                 Obj([value |-> Prop(params, "data"), analyzed |-> Bool(TRUE)]),
                 Undefined, Undefined)))

\* ExampleCustomAgent.execute has no try block of its own.
ExampleCustomAgent_execute(input) ==
    AsyncResult(
        IF Destructure(input).kind = "throw" THEN Destructure(input)
        ELSE LET command == Prop(input, "command")
                 params == Prop(input, "params") IN
             CASE command = Str("greet") -> ReturnPromise(greet(params))
               [] command = Str("analyze") -> ReturnPromise(analyze(params))
               [] OTHER -> Normal(UnknownCommand(command)))

(* ------------------------------------------------------------------ *)
(* Units                                                               *)
(* ------------------------------------------------------------------ *)

\* The unit objects of a run: one instance of each class of the
\* repository, and a caller-written Agent whose id clashes with the
\* scanner's.
Units == {"scanAgent", "reconAgent", "customAgent", "otherAgent"}

\* agent.id, as the constructors set it.
UnitId(u) ==
    CASE u = "scanAgent" -> "security-scan"
      [] u = "reconAgent" -> "recon"
      [] u = "customAgent" -> "example-custom"
      [] u = "otherAgent" -> "security-scan"

UnitClass(u) ==
    CASE u = "scanAgent" -> "SecurityScanAgent"
      [] u = "reconAgent" -> "ReconAgent"
      [] u = "customAgent" -> "ExampleCustomAgent"
      [] u = "otherAgent" -> "Agent"

\* A capabilities list naming a command no case of the switch handles.
CapabilitiesUndispatched(u) ==
    CASE u = "scanAgent" ->
             <<"port-scan", "vulnerability-scan", "web-scan", "ssl-check", "nmap">>
      [] u = "reconAgent" ->
             <<"dns-lookup", "whois", "subdomain-enum", "tech-detect">>
      [] u = "customAgent" -> <<"greet", "analyze">>
      [] u = "otherAgent" -> <<>>

\* agent.capabilities, as the constructors set it.
Capabilities(u) ==
    CASE u = "scanAgent" ->
             <<"port-scan", "vulnerability-scan", "web-scan", "ssl-check">>
      [] u = "reconAgent" ->
             <<"dns-lookup", "whois", "subdomain-enum", "tech-detect">>
      [] u = "customAgent" -> <<"greet", "analyze">>
      [] u = "otherAgent" -> <<>>

\* What a caller-written Agent.execute may do with a call: fulfil with an
\* envelope, throw before returning a promise, or reject; the fault an
\* Error (its message possibly empty) or any other value.
NoScript == [how |-> "none"]
Scripts ==
    {[how |-> "fulfil", value |-> createOutput(TRUE, EmptyObj, Undefined, Undefined)]}
    \cup {[how |-> h, reason |-> e] :
            h \in {"throw", "reject"},
            e \in {Error("boom"), Error(""), Str("boom"), Undefined}}

\* The call expression agent.execute(input): the completion of the call,
\* its value the promise returned.
UnitExecute(u, input, script) ==
    CASE UnitClass(u) = "SecurityScanAgent" ->
             Normal(SecurityScanAgent_execute(input))
      [] UnitClass(u) = "ReconAgent" -> Normal(ReconAgent_execute(input))
      [] UnitClass(u) = "ExampleCustomAgent" ->
             Normal(ExampleCustomAgent_execute(input))
      [] OTHER ->
             CASE script.how = "fulfil" -> Normal(Fulfilled(script.value))
               [] script.how = "reject" -> Normal(Rejected(script.reason))
               [] OTHER -> Throw(script.reason)

(* ------------------------------------------------------------------ *)
(* AgentRegistry                                                       *)
(* ------------------------------------------------------------------ *)

\* The Map `agents` is the sequence of its entries in insertion order.
Entry(u) == [key |-> UnitId(u), value |-> u]

MapHas(m, key) == \E i \in 1..Len(m) : m[i].key = key

MapIndex(m, key) == CHOOSE i \in 1..Len(m) : m[i].key = key

\* Map.set: a new key is appended, an existing key keeps its place.
MapSet(m, key, value) ==
    IF MapHas(m, key)
    THEN [m EXCEPT ![MapIndex(m, key)] = [key |-> key, value |-> value]]
    ELSE Append(m, [key |-> key, value |-> value])

\* delete by moving the last entry into the hole (an array's swap-remove).
MapDeleteSwap(m, key) ==
    IF ~(\E i \in 1..Len(m) : m[i].key = key) THEN m
    ELSE LET i == CHOOSE k \in 1..Len(m) : m[k].key = key IN
         IF i = Len(m) THEN SubSeq(m, 1, Len(m) - 1)
         ELSE SubSeq([m EXCEPT ![i] = m[Len(m)]], 1, Len(m) - 1)

\* Map.delete: the entry is removed, the others keep their order.
MapDelete(m, key) == SelectSeq(m, LAMBDA e : e.key # key)

AgentRef(u) == [t |-> "agent", ref |-> u]

\* Map.get: the value, or undefined.
MapGet(m, key) ==
    IF MapHas(m, key) THEN AgentRef(m[MapIndex(m, key)].value) ELSE Undefined

\* register without the has() check: a duplicate silently overwrites.
registerOverwrite(m, u) ==
    [agents |-> MapSet(m, UnitId(u), u), completion |-> Normal(Undefined)]

\* register that checks for a duplicate but forgets to insert.
registerNoInsert(m, u) ==
    IF MapHas(m, UnitId(u))
    THEN [agents |-> m,
          completion |-> Throw(Error("Agent with id " \o UnitId(u)
                                     \o " is already registered"))]
    ELSE [agents |-> m, completion |-> Normal(Undefined)]

\* register over an array of units, pushed without a duplicate check.
registerPush(m, u) ==
    [agents |-> Append(m, Entry(u)), completion |-> Normal(Undefined)]

\* register(agent): the Map afterwards and the completion of the call.
register(m, u) ==
    IF MapHas(m, UnitId(u))
    THEN [agents |-> m,
          completion |-> Throw(Error("Agent with id " \o UnitId(u)
                                     \o " is already registered"))]
    ELSE [agents |-> MapSet(m, UnitId(u), u), completion |-> Normal(Undefined)]

\* unregister that, like register, fails on the unexpected case.
unregisterStrict(m, agentId) ==
    IF MapHas(m, agentId)
    THEN [agents |-> MapDelete(m, agentId), completion |-> Normal(Undefined)]
    ELSE [agents |-> m,
          completion |-> Throw(Error("Agent not found: " \o agentId))]

unregister(m, agentId) ==
    [agents |-> MapDelete(m, agentId), completion |-> Normal(Undefined)]

get(m, agentId) == MapGet(m, agentId)

\* list(): Array.from(this.agents.values()).
list(m) == [i \in 1..Len(m) |-> m[i].value]

\* The catch clause of AgentRegistry.execute.
RegistryCatch(error) ==
    [success |-> Bool(FALSE),
     error |-> IF error.t = "error" THEN Str(error.message)
               ELSE Str("Unknown error")]

\* TryAwaitExecute with the await forgotten: try { return agent.execute(input) }.
TryReturnExecute(called) ==
    IF called.kind = "throw" THEN Normal(RegistryCatch(called.reason))
    ELSE ReturnPromise(called.value)

\* try { return await agent.execute(input) } catch (error) { ... }
TryAwaitExecute(called) ==
    LET c == AwaitCall(called) IN
    IF c.kind = "throw" THEN Normal(RegistryCatch(c.reason)) ELSE c

\* execute building the not-found envelope with a unit's createOutput.
executeCreateOutput(m, agentId, input, script) ==
    LET agent == get(m, agentId) IN
    IF ~Truthy(agent)
    THEN [promise |-> AsyncResult(Normal(createOutput(FALSE, Null,
              Str("Agent not found: " \o agentId), Undefined))),
          invoked |-> <<>>]
    ELSE [promise |-> AsyncResult(
              TryAwaitExecute(UnitExecute(agent.ref, input, script))),
          invoked |-> <<agent.ref>>]

\* execute(agentId, input): the promise returned and the units whose
\* execute was invoked.
execute(m, agentId, input, script) ==
    LET agent == get(m, agentId) IN
    IF ~Truthy(agent)
    THEN [promise |-> AsyncResult(Normal(
              [success |-> Bool(FALSE),
               error |-> Str("Agent not found: " \o agentId)])),
          invoked |-> <<>>]
    ELSE [promise |-> AsyncResult(
              TryAwaitExecute(UnitExecute(agent.ref, input, script))),
          invoked |-> <<agent.ref>>]

\* execute(agentId, input) up to where it first waits: the unit is looked
\* up and its execute called.  The promise returned is settled already when
\* no unit is found or the call throws (the catch runs at once); otherwise
\* execute waits at `await` for the promise in `called`.
\* before: the Map at the call.
executeCalled(m, agentId, input, script) ==
    LET agent == get(m, agentId)
        called == IF Truthy(agent) THEN UnitExecute(agent.ref, input, script)
                  ELSE Normal(Pending)
        waits == Truthy(agent) /\ called.kind = "normal"
    IN [id |-> agentId, input |-> input, script |-> script, before |-> m,
        invoked |-> IF Truthy(agent) THEN <<agent.ref>> ELSE <<>>,
        called |-> called,
        awaiting |-> waits,
        promise |-> IF waits THEN Pending
                    ELSE execute(m, agentId, input, script).promise]

\* The await resumed with the unit looked up again in the Map as it is now.
executeResumedLookup(m, p) ==
    IF p.awaiting THEN execute(m, p.id, p.input, p.script).promise
    ELSE p.promise

\* execute from its await on, for the pending call p: the try block's
\* return or its catch.  The Map m is not read again.
executeResumed(m, p) ==
    IF p.awaiting THEN AsyncResult(TryAwaitExecute(p.called)) ELSE p.promise

\* The calls pending, each waiting for the promise of the call made last.
IssueExecuteShared(calls, m, agentId, input, script) ==
    LET new == executeCalled(m, agentId, input, script) IN
    Append([i \in 1..Len(calls) |->
               IF calls[i].awaiting /\ new.awaiting
               THEN [calls[i] EXCEPT !.called = new.called]
               ELSE calls[i]],
           new)

\* The calls pending after execute(agentId, input) is called and not
\* awaited: each call keeps its own unit, input and promise.
IssueExecute(calls, m, agentId, input, script) ==
    Append(calls, executeCalled(m, agentId, input, script))

(* ------------------------------------------------------------------ *)
(* ToolExecutor                                                        *)
(* ------------------------------------------------------------------ *)

\* new ToolExecutor(config): this.config.  config is {} when not passed.
ToolExecutor(config) ==
    LET c == IF config = Undefined THEN EmptyObj ELSE config IN
    [timeout |-> OrElse(Prop(c, "timeout"), Num(30000)),
     retries |-> OrElse(Prop(c, "retries"), Num(3)),
     verbose |-> OrElse(Prop(c, "verbose"), Bool(FALSE))]

\* this.config.retries || 3, the bound of the loop.
Retries(config) == OrElse(config.retries, Num(3)).n

\* this.config.timeout || 30000, the argument of executeWithTimeout.
Timeout(config) == OrElse(config.timeout, Num(30000)).n

\* Math.min(a, b)
Min(a, b) == IF a <= b THEN a ELSE b

\* The backoff without its cap.
delayUncapped(attempt) == 1000 * 2^attempt

\* const delay = Math.min(1000 * Math.pow(2, attempt), 10000)
delay(attempt) == Min(1000 * 2^attempt, 10000)

\* The ternary with its branches exchanged.
lastErrorInverted(error) ==
    IF error.t = "error" THEN Error("Unknown error") ELSE error

\* lastError = error instanceof Error ? error : new Error('Unknown error')
lastErrorOf(error) ==
    IF error.t = "error" THEN error ELSE Error("Unknown error")

\* The final throw without lastError.
ThrowGeneric(lastError) == Throw(Error("Execution failed"))

\* throw lastError || new Error('Execution failed')
ThrowLast(lastError) == Throw(OrElse(lastError, Error("Execution failed")))

NoTimer == [armed |-> FALSE, ms |-> 0]

\* setTimeout(callback, ms)
Timer(ms) == [armed |-> TRUE, ms |-> ms]

\* The operation's promise awaited alone: no timer is set.
executeUntimed(called, timeout) ==
    IF called.kind = "throw"
    THEN [race |-> Rejected(called.reason), timer |-> NoTimer]
    ELSE [race |-> Pending, timer |-> NoTimer]

\* The race with a timer of the default duration, whatever timeout is.
executeWithDefaultTimeout(called, timeout) ==
    IF called.kind = "throw"
    THEN [race |-> Rejected(called.reason), timer |-> NoTimer]
    ELSE [race |-> Pending, timer |-> Timer(30000)]

\* executeWithTimeout(fn, timeout): `called` is the completion of fn().  The
\* array literal evaluates fn() first: when it throws, no timer is set and
\* the async function's promise is rejected; otherwise the race of the
\* operation's promise with the timer's is pending.
executeWithTimeout(called, timeout) ==
    IF called.kind = "throw"
    THEN [race |-> Rejected(called.reason), timer |-> NoTimer]
    ELSE [race |-> Pending, timer |-> Timer(timeout)]

\* The executor and one call of execute on it.
\* supplied: the constructor's argument.  config: this.config.
\* pc: where execute stands ("idle" before the call, "for" at the loop test,
\* "racing" and "sleeping" at the two awaits, "returned", "threw").
\* attempt, lastError, description: execute's locals.  outcome: its completion.
\* race, timer: the promise awaited in the attempt and its timer.
\* sleeping: the delay of the sleep awaited.  console: the lines logged.
\* invoked: calls of fn so far.  failed: attempts that ended in the catch.
\* lastFault: the fault caught last, as it was raised.  waits: the delays
\* slept so far.  lastSettle: what ended the last attempt and how.
\* abandoned: operations still running after their attempt timed out.
\* late: abandoned operations that have fulfilled since.
\* staleTimers: timers still set after their race was settled.
NewTool(supplied) ==
    [supplied |-> supplied, config |-> ToolExecutor(supplied), pc |-> "idle",
     description |-> Undefined, attempt |-> 0, lastError |-> Undefined,
     outcome |-> Normal(Undefined), race |-> Pending, timer |-> NoTimer,
     sleeping |-> 0, console |-> <<>>, invoked |-> 0, failed |-> 0,
     lastFault |-> Undefined, waits |-> <<>>,
     lastSettle |-> [by |-> "none", promise |-> Pending],
     abandoned |-> 0, late |-> 0, staleTimers |-> 0]

\* The registry's specifications construct no executor.
NoTool == NewTool(Undefined)

\* a && b
AndAlso(a, b) == IF Truthy(a) THEN b ELSE a

\* if (on) console.log(line)
Log(t, on, line) == IF Truthy(on) THEN Append(t.console, line) ELSE t.console

\* The try block up to its await: the log line, fn() and the race set up.
TryBody(t, called) ==
    LET r == executeWithTimeout(called, Timeout(t.config)) IN
    [t EXCEPT !.console = Log(t, AndAlso(t.config.verbose, t.description),
                              "attempt"),
              !.invoked = t.invoked + 1,
              !.race = r.race,
              !.timer = r.timer,
              !.pc = "racing"]

\* The loop test with <= for <.
LoopTestInclusive(t, called) ==
    IF t.attempt <= Retries(t.config)
    THEN TryBody(t, called)
    ELSE [t EXCEPT !.pc = "threw", !.outcome = ThrowLast(t.lastError)]

\* The loop test, and what follows it up to the next await or the end.
LoopTest(t, called) ==
    IF t.attempt < Retries(t.config)
    THEN TryBody(t, called)
    ELSE [t EXCEPT !.pc = "threw", !.outcome = ThrowLast(t.lastError)]

\* return result, after the race fulfilled with result.
ReturnResult(t, result) ==
    [t EXCEPT !.console = Log(t, t.config.verbose, "completed"),
              !.outcome = Normal(result),
              !.pc = "returned"]

\* The catch block: the race rejected with error.
Catch(t, error) ==
    LET c == [t EXCEPT !.lastError = lastErrorOf(error),
                       !.lastFault = error,
                       !.failed = t.failed + 1,
                       !.console = Log(t, t.config.verbose, "failed")]
    IN IF t.attempt < Retries(t.config) - 1
       THEN [c EXCEPT !.sleeping = delay(t.attempt),
                      !.waits = Append(t.waits, delay(t.attempt)),
                      !.pc = "sleeping"]
       ELSE [c EXCEPT !.attempt = t.attempt + 1, !.pc = "for"]

(* ------------------------------------------------------------------ *)
(* Inputs                                                              *)
(* ------------------------------------------------------------------ *)

AgentIds == {UnitId(u) : u \in Units} \cup {"nonexistent-id"}

ShippedCommands ==
    {"port-scan", "vulnerability-scan", "web-scan", "ssl-check",
     "dns-lookup", "whois", "subdomain-enum", "tech-detect"}

Commands == ShippedCommands \cup {"greet", "analyze", "nmap"}

\* Values a caller may pass as params: null, a primitive, and objects with
\* none, one or all of the parameter names (a key may hold undefined).
ParamValues ==
    {Null, Str("scan-me"), EmptyObj,
     Obj([target |-> Str("192.168.1.1")]),
     Obj([target |-> Undefined]),
     Obj([url |-> Str("https://example.com")]),
     Obj([domain |-> Str("example.com")]),
     Obj([name |-> Str("Security Researcher")]),
     Obj([data |-> Str("12345")]),
     Obj([target |-> Str("example.com"), url |-> Str("https://example.com"),
          domain |-> Str("example.com")])}

\* An AgentInput with params, one without, and a call that passes none.
Inputs ==
    {Undefined}
    \cup {Obj([command |-> Str(c)]) : c \in Commands}
    \cup {Obj([command |-> Str(c), params |-> p]) :
            c \in Commands, p \in ParamValues}

\* The case labels of a unit's dispatch switch.
SwitchCases(class) ==
    CASE class = "SecurityScanAgent" ->
             {"port-scan", "vulnerability-scan", "web-scan", "ssl-check"}
      [] class = "ReconAgent" ->
             {"dns-lookup", "whois", "subdomain-enum", "tech-detect"}
      [] class = "ExampleCustomAgent" -> {"greet", "analyze"}
      [] OTHER -> {}

\* The parameter each handler passes to validateInput as required.
RequiredParam(command) ==
    CASE command \in {"port-scan", "vulnerability-scan"} -> "target"
      [] command \in {"web-scan", "tech-detect"} -> "url"
      [] command \in {"ssl-check", "dns-lookup", "whois", "subdomain-enum"} ->
             "domain"
      [] command = "greet" -> "name"
      [] command = "analyze" -> "data"

\* The keys JSON.stringify writes for an envelope: a property whose value
\* is undefined is left out.
JsonKeys(envelope) == {k \in DOMAIN envelope : envelope[k].t # "undefined"}

\* The script a call needs: one of Scripts for a caller-written unit.
ScriptsFor(u) == IF UnitClass(u) = "Agent" THEN Scripts ELSE {NoScript}

\* The inputs tried on a unit: a caller-written unit acts by its script
\* alone, so one input stands for all.
InputsFor(u) ==
    IF UnitClass(u) = "Agent" THEN {Obj([command |-> Str("nmap")])} ELSE Inputs

(* ------------------------------------------------------------------ *)
(* State machine                                                       *)
(* ------------------------------------------------------------------ *)

\* The caller is sequential: it makes a call, holds what the call produced
\* (call), and moves on to its next call (Continue).
\* call: the call just made and what it produced.  before: the Map when it
\* was made.  invoked: the units whose execute it ran.
\* regTime, clock: under SpecOrder, the tick of each registered unit's last
\* successful registration (0 when not registered).
Call(op, id, unit, input, script, before, outcome, invoked) ==
    [op |-> op, id |-> id, unit |-> unit, input |-> input, script |-> script,
     before |-> before, outcome |-> outcome, invoked |-> invoked]

Idle == Call("idle", "", "", Undefined, NoScript, <<>>, Normal(Undefined), <<>>)

\* A call of validateInput: its arguments, how far it is (pc) and its
\* completion.
Validation(pc, input, requiredParams, outcome) ==
    [pc |-> pc, input |-> input, requiredParams |-> requiredParams,
     outcome |-> outcome]

NoValidation == Validation("idle", Undefined, <<>>, Normal(Undefined))

\* new AgentRegistry()
Init ==
    /\ agents = <<>>
    /\ call = Idle
    /\ regTime = [u \in Units |-> 0]
    /\ clock = 0
    /\ tool = NoTool
    /\ pending = <<>>
    /\ validation = NoValidation

RegisterCall(u) ==
    LET r == register(agents, u) IN
    /\ call.op = "idle"
    /\ agents' = r.agents
    /\ call' = Call("register", UnitId(u), u, Undefined, NoScript, agents,
                    r.completion, <<>>)
    /\ UNCHANGED <<tool, pending, validation>>

UnregisterCall(agentId) ==
    LET r == unregister(agents, agentId) IN
    /\ call.op = "idle"
    /\ agents' = r.agents
    /\ call' = Call("unregister", agentId, "", Undefined, NoScript, agents,
                    r.completion, <<>>)
    /\ UNCHANGED <<tool, pending, validation>>

Register(u) == RegisterCall(u) /\ UNCHANGED <<regTime, clock>>

Unregister(agentId) == UnregisterCall(agentId) /\ UNCHANGED <<regTime, clock>>

Get(agentId) ==
    /\ call.op = "idle"
    /\ call' = Call("get", agentId, "", Undefined, NoScript, agents,
                    Normal(get(agents, agentId)), <<>>)
    /\ UNCHANGED <<agents, regTime, clock, tool, pending, validation>>

List ==
    /\ call.op = "idle"
    /\ call' = Call("list", "", "", Undefined, NoScript, agents,
                    Normal(list(agents)), <<>>)
    /\ UNCHANGED <<agents, regTime, clock, tool, pending, validation>>

\* An execute that drops from the Map the unit whose call faulted.
ExecuteEvicting(agentId, input) ==
    \E script \in (IF MapHas(agents, agentId)
                   THEN ScriptsFor(get(agents, agentId).ref) ELSE {NoScript}) :
        LET r == execute(agents, agentId, input, script) IN
        /\ call.op = "idle"
        /\ MapHas(agents, agentId) => input \in InputsFor(get(agents, agentId).ref)
        /\ call' = Call("execute", agentId, "", input, script, agents,
                        r.promise, r.invoked)
        /\ agents' = IF r.promise.value.success = Bool(FALSE)
                      THEN MapDelete(agents, agentId) ELSE agents
        /\ UNCHANGED <<regTime, clock, tool, pending, validation>>

\* await registry.execute(agentId, input)
Execute(agentId, input) ==
    \E script \in (IF MapHas(agents, agentId)
                   THEN ScriptsFor(get(agents, agentId).ref) ELSE {NoScript}) :
        LET r == execute(agents, agentId, input, script) IN
        /\ call.op = "idle"
        /\ MapHas(agents, agentId) => input \in InputsFor(get(agents, agentId).ref)
        /\ call' = Call("execute", agentId, "", input, script, agents,
                        r.promise, r.invoked)
        /\ UNCHANGED <<agents, regTime, clock, tool, pending, validation>>

\* await agent.execute(input) on a unit the caller holds, not through the
\* registry.
DirectExecute(u, input) ==
    \E script \in ScriptsFor(u) :
        LET c == UnitExecute(u, input, script) IN
        /\ call.op = "idle"
        /\ call' = Call("unit.execute", UnitId(u), u, input, script, agents,
                        IF c.kind = "throw" THEN c ELSE c.value, <<u>>)
        /\ UNCHANGED <<agents, regTime, clock, tool, pending, validation>>

\* The caller has used the result and goes on.
Continue ==
    /\ call.op # "idle"
    /\ call' = Idle
    /\ UNCHANGED <<agents, regTime, clock, tool, pending, validation>>

Next ==
    \/ call.op = "idle" /\ \E u \in Units : Register(u)
    \/ call.op = "idle" /\ \E agentId \in AgentIds : Unregister(agentId)
    \/ call.op = "idle" /\ \E agentId \in AgentIds : Get(agentId)
    \/ List
    \/ call.op = "idle" /\ \E agentId \in AgentIds, input \in Inputs :
                        Execute(agentId, input)
    \/ call.op = "idle" /\ \E u \in Units : \E input \in InputsFor(u) :
                        DirectExecute(u, input)
    \/ Continue

Spec == Init /\ [][Next]_vars

(* ------------------------------------------------------------------ *)
(* Registration order                                                  *)
(* ------------------------------------------------------------------ *)

\* register, stamping a successful registration with the next tick.
StampedRegister(u) ==
    /\ RegisterCall(u)
    /\ IF register(agents, u).completion.kind = "normal"
       THEN /\ clock < MaxRegs
            /\ clock' = clock + 1
            /\ regTime' = [regTime EXCEPT ![u] = clock + 1]
       ELSE UNCHANGED <<clock, regTime>>

\* unregister, clearing the stamp of the unit removed.
StampedUnregister(agentId) ==
    /\ UnregisterCall(agentId)
    /\ regTime' = [u \in Units |->
                     IF MapHas(agents, agentId) /\ get(agents, agentId).ref = u
                     THEN 0 ELSE regTime[u]]
    /\ UNCHANGED clock

NextOrder ==
    \/ call.op = "idle" /\ \E u \in Units : StampedRegister(u)
    \/ call.op = "idle" /\ \E agentId \in AgentIds : StampedUnregister(agentId)
    \/ List
    \/ Continue

SpecOrder == Init /\ [][NextOrder]_vars

(* ------------------------------------------------------------------ *)
(* MCPServer: the protocol adapter                                     *)
(* ------------------------------------------------------------------ *)

\* agent.description, as the constructors set it.
UnitDescription(u) ==
    CASE u = "scanAgent" ->
             "Performs security scanning and vulnerability assessment on targets"
      [] u = "reconAgent" ->
             "Performs reconnaissance and information gathering on targets"
      [] u = "customAgent" -> "A custom agent example for demonstration"
      [] u = "otherAgent" -> "A caller-written agent"

\* agent.name, as the constructors set it.
UnitName(u) ==
    CASE u = "scanAgent" -> "Security Scanner"
      [] u = "reconAgent" -> "Reconnaissance Agent"
      [] u = "customAgent" -> "Example Custom Agent"
      [] u = "otherAgent" -> "Other Agent"

\* registerDefaultAgents(): the scanner, then the recon unit.
registerDefaultAgents(m) ==
    register(register(m, "scanAgent").agents, "reconAgent").agents

\* createDefaultRegistry(): a new registry with the same two registrations.
createDefaultRegistry == register(register(<<>>, "scanAgent").agents, "reconAgent").agents

\* The inputSchema every tool is listed with.
InputSchema ==
    [type |-> "object", properties |-> {"command", "params"},
     required |-> <<"command">>]

\* ListTools naming each tool by the unit's display name.
ListToolsByName(m) ==
    [i \in 1..Len(list(m)) |->
        [name |-> UnitName(list(m)[i]),
         description |-> UnitDescription(list(m)[i]),
         inputSchema |-> InputSchema]]

\* The ListTools handler: one entry per unit of registry.list(), in its order.
ListTools(m) ==
    [i \in 1..Len(list(m)) |->
        [name |-> UnitId(list(m)[i]),
         description |-> UnitDescription(list(m)[i]),
         inputSchema |-> InputSchema]]

\* JSON.stringify of a value: a property holding undefined is left out of
\* an object, at every depth.
RECURSIVE JsonValue(_)
JsonValue(v) ==
    IF v.t = "object"
    THEN Obj([k \in {x \in DOMAIN v.o : v.o[x].t # "undefined"} |->
                 JsonValue(v.o[k])])
    ELSE v

\* JSON.stringify(result, null, 2) of an envelope.
JsonStringify(envelope) ==
    [t |-> "json", text |-> [k \in JsonKeys(envelope) |-> JsonValue(envelope[k])]]

\* (args as any).command: a TypeError when args is undefined.
ReadArgs(args) ==
    IF args.t \in {"undefined", "null"}
    THEN Throw(Error("Cannot read properties of " \o TemplateString(args)
                     \o " (reading 'command')"))
    ELSE Normal(Undefined)

\* The arguments handed on without the defaults.
ForwardedInputNoDefault(args) ==
    Obj([command |-> Prop(args, "command"), params |-> Prop(args, "params")])

\* The AgentInput the CallTool handler builds from the arguments.
ForwardedInput(args) ==
    Obj([command |-> OrElse(Prop(args, "command"), Str("execute")),
         params |-> OrElse(Prop(args, "params"), EmptyObj)])

\* The CallTool handler: the promise of its response and the units run.
CallTool(m, name, args, script) ==
    IF ReadArgs(args).kind = "throw"
    THEN [promise |-> AsyncResult(ReadArgs(args)), invoked |-> <<>>]
    ELSE LET r == execute(m, name, ForwardedInput(args), script)
             result == ReturnAwait(r.promise)
         IN  [promise |-> AsyncResult(
                  IF result.kind = "throw" THEN result
                  ELSE Normal([content |->
                           <<[type |-> "text",
                              text |-> JsonStringify(result.value)]>>])),
              invoked |-> r.invoked]

\* The command and params values a request's arguments may carry: absent,
\* an empty string, names known and unknown; null, a primitive, objects.
RequestCommands == {Undefined, Str(""), Str("port-scan"), Str("dns-lookup"), Str("nmap")}

RequestParams ==
    {Undefined, Null, Str("scan-me"), EmptyObj,
     Obj([target |-> Str("192.168.1.1")]),
     Obj([target |-> Undefined]),
     Obj([domain |-> Str("example.com")])}

\* { command, params } with the properties that are undefined left out.
ArgsObject(command, params) ==
    Obj([k \in {x \in {"command", "params"} :
                  (IF x = "command" THEN command ELSE params) # Undefined} |->
            IF k = "command" THEN command ELSE params])

\* request.params.arguments: absent, or an object.
RequestArgs ==
    {Undefined}
    \cup {ArgsObject(c, p) : c \in RequestCommands, p \in RequestParams}

\* new MCPServer(): a new registry with the default agents registered.
InitAdapter ==
    /\ agents = registerDefaultAgents(<<>>)
    /\ call = Idle
    /\ regTime = [u \in Units |->
                    CASE u = "scanAgent" -> 1 [] u = "reconAgent" -> 2 [] OTHER -> 0]
    /\ clock = 2
    /\ tool = NoTool
    /\ pending = <<>>
    /\ validation = NoValidation

\* A tools/list request.
ListToolsRequest ==
    /\ call.op = "idle"
    /\ call' = Call("tools/list", "", "", Undefined, NoScript, agents,
                    Fulfilled([tools |-> ListTools(agents)]), <<>>)
    /\ UNCHANGED <<agents, regTime, clock, tool, pending, validation>>

\* A tools/call request { name, arguments }.
CallToolRequest(name, args) ==
    \E script \in (IF MapHas(agents, name)
                   THEN ScriptsFor(get(agents, name).ref) ELSE {NoScript}) :
        LET r == CallTool(agents, name, args, script) IN
        /\ call.op = "idle"
        /\ call' = Call("tools/call", name, "", args, script, agents,
                        r.promise, r.invoked)
        /\ UNCHANGED <<agents, regTime, clock, tool, pending, validation>>

\* Requests, and registrations made through getRegistry().
NextAdapter ==
    \/ ListToolsRequest
    \/ call.op = "idle" /\ \E name \in AgentIds, args \in RequestArgs :
                        CallToolRequest(name, args)
    \/ call.op = "idle" /\ \E u \in Units : StampedRegister(u)
    \/ call.op = "idle" /\ \E agentId \in AgentIds : StampedUnregister(agentId)
    \/ Continue

SpecAdapter == InitAdapter /\ [][NextAdapter]_vars

(* ------------------------------------------------------------------ *)
(* ToolExecutor: one call of execute                                   *)
(* ------------------------------------------------------------------ *)

\* The settings a ToolConfig is built from (undefined: the key is omitted).
ToolTimeouts == {Undefined, Num(0), Num(5000)}

ToolRetries == {Undefined} \cup {Num(n) : n \in -1..MaxRetries}

ToolVerbose == {Undefined, Bool(TRUE)}

ToolConfigs ==
    {Undefined}
    \cup {Obj([k \in {"timeout", "retries", "verbose"} |->
                 CASE k = "timeout" -> timeout
                   [] k = "retries" -> retries
                   [] OTHER -> verbose]) :
            timeout \in ToolTimeouts, retries \in ToolRetries,
            verbose \in ToolVerbose}

\* What fn() may do when called: throw a fault, or return a promise that is
\* settled later (or never).  NotThrown stands for the returned promise.
OpFaults == {Error("ECONNREFUSED"), Error("EHOSTDOWN"), Str("boom")}

OpResults == {Undefined, Str("report")}

\* How the promise fn() returned may settle.
OpSettlements ==
    {Fulfilled(result) : result \in OpResults}
    \cup {Rejected(error) : error \in OpFaults}

NotThrown == Normal(Pending)

OpCalls == {NotThrown} \cup {Throw(e) : e \in OpFaults}

\* new ToolExecutor(config), no registry involved.
InitTool ==
    /\ agents = <<>>
    /\ call = Idle
    /\ regTime = [u \in Units |-> 0]
    /\ clock = 0
    /\ tool \in {NewTool(config) : config \in ToolConfigs}
    /\ pending = <<>>
    /\ validation = NoValidation

\* executor.execute(fn, description), up to the loop.
ToolExecutor_execute(description) ==
    /\ tool.pc = "idle"
    /\ tool' = [tool EXCEPT !.description = description,
                            !.attempt = 0,
                            !.lastError = Undefined,
                            !.pc = "for"]
    /\ UNCHANGED <<agents, call, regTime, clock, pending, validation>>

\* The loop test; when it passes, the attempt starts and fn() is called.
StartAttempt(called) ==
    /\ tool.pc = "for"
    /\ tool' = LoopTest(tool, called)
    /\ UNCHANGED <<agents, call, regTime, clock, pending, validation>>

\* fn() threw: the await of the rejected promise resumes in the catch.
OpThrew ==
    /\ tool.pc = "racing"
    /\ tool.race.state = "rejected"
    /\ tool' = Catch([tool EXCEPT !.lastSettle =
                          [by |-> "throw", promise |-> tool.race]],
                     tool.race.reason)
    /\ UNCHANGED <<agents, call, regTime, clock, pending, validation>>

\* The operation's promise fulfils before the timer fires: the race
\* fulfils with its value.  The timer stays set.
OpFulfils(result) ==
    /\ tool.pc = "racing"
    /\ tool.race.state = "pending"
    /\ tool' = ReturnResult(
                   [tool EXCEPT !.race = Fulfilled(result),
                                !.timer = NoTimer,
                                !.staleTimers = tool.staleTimers + 1,
                                !.lastSettle = [by |-> "operation",
                                                promise |-> Fulfilled(result)]],
                   result)
    /\ UNCHANGED <<agents, call, regTime, clock, pending, validation>>

\* The operation's promise rejects before the timer fires.
OpRejects(error) ==
    /\ tool.pc = "racing"
    /\ tool.race.state = "pending"
    /\ tool' = Catch([tool EXCEPT !.race = Rejected(error),
                                  !.timer = NoTimer,
                                  !.staleTimers = tool.staleTimers + 1,
                                  !.lastSettle = [by |-> "operation",
                                                  promise |-> Rejected(error)]],
                     error)
    /\ UNCHANGED <<agents, call, regTime, clock, pending, validation>>

\* The timer fires before the operation settles: reject(new Error('Timeout')).
\* The operation goes on running.
TimerFires ==
    /\ tool.pc = "racing"
    /\ tool.race.state = "pending"
    /\ tool.timer.armed
    /\ tool' = Catch([tool EXCEPT !.race = Rejected(Error("Timeout")),
                                  !.timer = NoTimer,
                                  !.abandoned = tool.abandoned + 1,
                                  !.lastSettle = [by |-> "timer",
                                                  promise |-> Rejected(Error("Timeout"))]],
                     Error("Timeout"))
    /\ UNCHANGED <<agents, call, regTime, clock, pending, validation>>

\* The sleep's timer fires: attempt++ and back to the loop test.
SleepDone ==
    /\ tool.pc = "sleeping"
    /\ tool' = [tool EXCEPT !.attempt = tool.attempt + 1,
                            !.sleeping = 0,
                            !.pc = "for"]
    /\ UNCHANGED <<agents, call, regTime, clock, pending, validation>>

\* A settlement of any operation in flight decides the race awaited now.
LateSettlementWins(t, promise) ==
    LET s == [t EXCEPT !.abandoned = t.abandoned - 1,
                       !.late = t.late + (IF promise.state = "fulfilled"
                                          THEN 1 ELSE 0)]
    IN IF t.pc = "racing" /\ t.race.state = "pending"
          /\ promise.state = "fulfilled"
       THEN ReturnResult([s EXCEPT !.race = promise, !.timer = NoTimer],
                         promise.value)
       ELSE s

\* Promise.race once settled: the promise of an operation whose attempt
\* timed out settles with `promise`, and the race it belonged to, rejected
\* by the timer, stays as it is.  The race of a later attempt holds the
\* promise of that attempt's own call of fn only.
LateSettlement(t, promise) ==
    [t EXCEPT !.abandoned = t.abandoned - 1,
              !.late = t.late + (IF promise.state = "fulfilled" THEN 1 ELSE 0)]

\* An operation left running by a timed-out attempt settles.
LateSettle(promise) ==
    /\ tool.abandoned > 0
    /\ tool' = LateSettlement(tool, promise)
    /\ UNCHANGED <<agents, call, regTime, clock, pending, validation>>

\* The timer of a race the operation won fires: its reject has no effect.
StaleTimerFires ==
    /\ tool.staleTimers > 0
    /\ tool' = [tool EXCEPT !.staleTimers = tool.staleTimers - 1]
    /\ UNCHANGED <<agents, call, regTime, clock, pending, validation>>

NextTool ==
    \/ \E description \in {Undefined, Str("scan")} :
           ToolExecutor_execute(description)
    \/ tool.pc = "for" /\ \E called \in OpCalls : StartAttempt(called)
    \/ OpThrew
    \/ tool.pc = "racing" /\ \E result \in OpResults : OpFulfils(result)
    \/ tool.pc = "racing" /\ \E error \in OpFaults : OpRejects(error)
    \/ TimerFires
    \/ SleepDone
    \/ tool.abandoned > 0 /\ \E promise \in OpSettlements : LateSettle(promise)
    \/ StaleTimerFires

SpecTool == InitTool /\ [][NextTool]_vars

\* What runs without waiting for the operation: the loop test and the call
\* of fn are synchronous code, the catch of a thrown fault is a microtask,
\* and the timers of setTimeout fire.  Nothing makes the operation settle.
ToolFairness ==
    /\ WF_vars(tool.pc = "for" /\ \E called \in OpCalls : StartAttempt(called))
    /\ WF_vars(OpThrew)
    /\ WF_vars(TimerFires)
    /\ WF_vars(SleepDone)

SpecToolFair == InitTool /\ [][NextTool]_vars /\ ToolFairness

(* ------------------------------------------------------------------ *)
(* AgentRegistry: execute calls not awaited                            *)
(* ------------------------------------------------------------------ *)

\* The inputs of the calls left pending: for each shipped unit a command
\* that succeeds and one it does not know, and one whose parameter is
\* missing.
PendingInputs ==
    {Obj([command |-> Str("port-scan"),
          params |-> Obj([target |-> Str("192.168.1.1")])]),
     Obj([command |-> Str("port-scan")]),
     Obj([command |-> Str("dns-lookup"),
          params |-> Obj([domain |-> Str("example.com")])])}

PendingIds == {"security-scan", "recon"}

\* What the caller-written unit does with a pending call.
PendingScripts ==
    {[how |-> "fulfil", value |-> createOutput(TRUE, EmptyObj, Undefined, Undefined)],
     [how |-> "reject", reason |-> Error("boom")]}

\* The units registered and unregistered while calls are pending: both
\* have the id security-scan.
PendingUnits == {"scanAgent", "otherAgent"}

\* createDefaultRegistry(), no call made.
InitPending ==
    /\ agents = createDefaultRegistry
    /\ call = Idle
    /\ regTime = [u \in Units |-> 0]
    /\ clock = 0
    /\ tool = NoTool
    /\ pending = <<>>
    /\ validation = NoValidation

\* registry.execute(agentId, input), the promise kept and not awaited.
IssueCall(agentId, input) ==
    \E script \in (IF MapHas(agents, agentId)
                      /\ UnitClass(get(agents, agentId).ref) = "Agent"
                   THEN PendingScripts ELSE {NoScript}) :
        /\ Len(pending) < MaxPending
        /\ pending' = IssueExecute(pending, agents, agentId, input, script)
        /\ UNCHANGED <<agents, call, regTime, clock, tool, validation>>

\* The i-th pending call settles and the caller looks at its result.
SettleCall(i) ==
    LET p == pending[i] IN
    /\ call.op = "idle"
    /\ call' = Call("execute", p.id, "", p.input, p.script, p.before,
                    executeResumed(agents, p), p.invoked)
    /\ pending' = [j \in 1..(Len(pending) - 1) |->
                      IF j < i THEN pending[j] ELSE pending[j + 1]]
    /\ UNCHANGED <<agents, regTime, clock, tool, validation>>

NextPending ==
    \/ \E agentId \in PendingIds, input \in PendingInputs :
           IssueCall(agentId, input)
    \/ \E i \in 1..Len(pending) : SettleCall(i)
    \/ call.op = "idle" /\ \E u \in PendingUnits : Register(u)
    \/ call.op = "idle" /\ Unregister("security-scan")
    \/ Continue

SpecPending == InitPending /\ [][NextPending]_vars

(* ------------------------------------------------------------------ *)
(* BaseAgent.validateInput on its own                                  *)
(* ------------------------------------------------------------------ *)

\* The params of the inputs validated: none, null, a string, and objects
\* with none, some or all of the names required, a key holding null or
\* undefined included.
ValidatedParams ==
    {Null, Str("scan-me"), EmptyObj,
     Obj([target |-> Str("192.168.1.1")]),
     Obj([target |-> Undefined]),
     Obj([target |-> Null]),
     Obj([port |-> Str("443")]),
     Obj([target |-> Str("192.168.1.1"), port |-> Str("443")]),
     Obj([target |-> Null, port |-> Undefined]),
     Obj([constructor |-> Str("Scanner")])}

ValidatedInputs ==
    {Obj([command |-> Str("scan")])}
    \cup {Obj([command |-> Str("scan"), params |-> p]) : p \in ValidatedParams}

\* The lists of required names: those a subclass passes, empty, in either
\* order, and names every object inherits.
RequiredNames ==
    {<<>>, <<"target">>, <<"port">>, <<"target", "port">>, <<"port", "target">>,
     <<"constructor">>, <<"toString">>, <<"target", "toString">>,
     <<"constructor", "port">>}

\* A subclass is about to call this.validateInput(input, requiredParams).
InitValidate ==
    /\ agents = <<>>
    /\ call = Idle
    /\ regTime = [u \in Units |-> 0]
    /\ clock = 0
    /\ tool = NoTool
    /\ pending = <<>>
    /\ validation \in {Validation("called", input, requiredParams, Normal(Undefined)) :
                           input \in ValidatedInputs,
                           requiredParams \in RequiredNames}

\* validateInput runs: it returns or throws.
ValidateInput ==
    /\ validation.pc = "called"
    /\ validation' = [validation EXCEPT
                          !.pc = "returned",
                          !.outcome = validateInput(validation.input,
                                                    validation.requiredParams)]
    /\ UNCHANGED <<agents, call, regTime, clock, tool, pending>>

NextValidate == ValidateInput

SpecValidate == InitValidate /\ [][NextValidate]_vars

(* ------------------------------------------------------------------ *)
(* Properties                                                          *)
(* ------------------------------------------------------------------ *)

ShippedClasses == {"SecurityScanAgent", "ReconAgent"}

\* The command name an input carries (inputs that are objects).
CommandOf(input) == Prop(input, "command").s

\* What the unit a registry call reached did with the call, seen from the
\* registry: it faulted when the call threw or its promise rejected.
UnitFaulted ==
    LET c == UnitExecute(call.invoked[1], call.input, call.script) IN
    c.kind = "throw" \/ c.value.state = "rejected"

\* C1: AgentRegistry.execute never rejects; when the unit it reached threw
\* synchronously or returned a rejected promise, with an Error or with any
\* other value, the call resolves to an envelope with success = false and
\* error a string.
C1_ExecuteNeverRejects ==
    call.op = "execute" =>
        /\ call.outcome.state = "fulfilled"
        /\ (call.invoked # <<>> /\ UnitFaulted) =>
               /\ call.outcome.value.success = Bool(FALSE)
               /\ "error" \in DOMAIN call.outcome.value
               /\ call.outcome.value.error.t = "string"

\* A registered caller-written unit rejected with a value that is no Error,
\* and the registry answered with the "Unknown error" envelope.
C1_Witness ==
    /\ call.op = "execute"
    /\ call.invoked = <<"otherAgent">>
    /\ call.script = [how |-> "reject", reason |-> Str("boom")]
    /\ call.outcome = Fulfilled([success |-> Bool(FALSE),
                                 error |-> Str("Unknown error")])

\* C2: execute of a shipped unit, called directly with any command and any
\* params, never rejects.
C2_UnitExecuteNeverRejects ==
    (call.op = "unit.execute" /\ UnitClass(call.unit) \in ShippedClasses) =>
        call.outcome.state = "fulfilled"

\* C3: register of a unit whose id is already registered throws and leaves
\* the Map as it was: get of the id returns the original unit and list() is
\* the same sequence.
C3_DuplicateRegisterFails ==
    (call.op = "register" /\ MapHas(call.before, call.id)) =>
        /\ call.outcome.kind = "throw"
        /\ call.outcome.reason =
               Error("Agent with id " \o call.id \o " is already registered")
        /\ get(agents, call.id) = get(call.before, call.id)
        /\ list(agents) = list(call.before)
        /\ agents = call.before

\* A second unit with the scanner's id was refused while the scanner and
\* another unit were registered; the scanner is still the one get returns.
C3_Witness ==
    /\ call.op = "register"
    /\ call.unit = "otherAgent"
    /\ call.outcome.kind = "throw"
    /\ get(agents, "security-scan") = AgentRef("scanAgent")
    /\ Len(agents) >= 2

\* The number of times unit u occurs in sequence l.
Occurrences(l, u) == Cardinality({i \in 1..Len(l) : l[i] = u})

\* C4: register of a unit whose id is not registered returns normally, after
\* which get of its id returns that unit and list() holds it exactly once.
C4_RegisterInserts ==
    (call.op = "register" /\ ~MapHas(call.before, call.id)) =>
        /\ call.outcome = Normal(Undefined)
        /\ get(agents, call.id) = AgentRef(call.unit)
        /\ Occurrences(list(agents), call.unit) = 1

\* The scanner's id was free again after an unregister and a different unit
\* took it, beside a unit already registered.
C4_Witness ==
    /\ call.op = "register"
    /\ call.unit = "otherAgent"
    /\ call.outcome.kind = "normal"
    /\ Len(call.before) >= 1
    /\ get(agents, "security-scan") = AgentRef("otherAgent")

\* C5: in every state of the registry no two units of list() share an id,
\* and every unit of list() is the one get returns for its id.
C5_UniqueIds ==
    LET l == list(agents) IN
    /\ \A i, j \in 1..Len(l) : i # j => UnitId(l[i]) # UnitId(l[j])
    /\ \A i \in 1..Len(l) : get(agents, UnitId(l[i])) = AgentRef(l[i])

\* Three units are registered and a register of a fourth, with an id in
\* use, has just been refused.
C5_Witness ==
    /\ Len(agents) = 3
    /\ call.op = "register"
    /\ call.outcome.kind = "throw"

\* C6: execute of an id that is not registered resolves to exactly
\* { success: false, error: "Agent not found: <id>" } whatever the input,
\* runs no unit's execute and leaves the Map unchanged.
C6_AgentNotFound ==
    (call.op = "execute" /\ ~MapHas(call.before, call.id)) =>
        /\ call.outcome = Fulfilled([success |-> Bool(FALSE),
                                     error |-> Str("Agent not found: " \o call.id)])
        /\ call.invoked = <<>>
        /\ agents = call.before

\* The scanner's id was asked for while only other units were registered.
C6_Witness ==
    /\ call.op = "execute"
    /\ call.id = "security-scan"
    /\ ~MapHas(call.before, "security-scan")
    /\ Len(agents) = 2
    /\ call.input = Obj([command |-> Str("port-scan"),
                         params |-> Obj([target |-> Str("192.168.1.1")])])

\* The call ran the execute of one unit of the repository, with an input
\* that is an object.
ReachedUnit ==
    /\ call.op \in {"execute", "unit.execute"}
    /\ call.invoked # <<>>
    /\ UnitClass(call.invoked[1]) # "Agent"
    /\ call.input.t = "object"

\* C7: when the command name is not a case of the unit's dispatch switch,
\* execute (through the registry or on the unit) resolves to a failure
\* envelope with error "Unknown command: <name>", whatever params are
\* supplied or absent.
C7_UnknownCommand ==
    (ReachedUnit
     /\ CommandOf(call.input) \notin SwitchCases(UnitClass(call.invoked[1]))) =>
        /\ call.outcome.state = "fulfilled"
        /\ call.outcome.value.success = Bool(FALSE)
        /\ call.outcome.value.error =
               Str("Unknown command: " \o CommandOf(call.input))
        /\ call.outcome.value.data = Null

\* The registered recon unit was given a command of the scanner, with no
\* params.
C7_Witness ==
    /\ call.op = "execute"
    /\ call.invoked = <<"reconAgent">>
    /\ call.input = Obj([command |-> Str("port-scan")])
    /\ call.outcome.value.error = Str("Unknown command: port-scan")

C9_UnregisterIdempotent ==
    call.op = "unregister" =>
        /\ call.outcome = Normal(Undefined)
        /\ ~MapHas(agents, call.id)
        /\ get(agents, call.id) = Undefined
        /\ \A other \in AgentIds \ {call.id} :
               get(agents, other) = get(call.before, other)
        /\ Len(agents) = Len(call.before) - (IF MapHas(call.before, call.id) THEN 1 ELSE 0)
        /\ ~MapHas(call.before, call.id) => agents = call.before
        /\ unregister(agents, call.id).agents = agents
        /\ unregister(agents, call.id).completion = Normal(Undefined)

\* An id that is not registered was unregistered while two units were.
C9_Witness ==
    /\ call.op = "unregister"
    /\ ~MapHas(call.before, call.id)
    /\ Len(agents) = 2
    /\ agents = call.before

\* C10: list() holds the registered units in the order of their last
\* successful registration: the stamps of the units listed are positive and
\* strictly increasing along the list, and a unit not listed has none.
C10_ListInRegistrationOrder ==
    LET l == list(agents) IN
    /\ \A i, j \in 1..Len(l) : i < j => regTime[l[i]] < regTime[l[j]]
    /\ \A i \in 1..Len(l) : regTime[l[i]] > 0
    /\ \A u \in Units : (\A i \in 1..Len(l) : l[i] # u) => regTime[u] = 0

\* list() after the scanner, registered first, was unregistered and
\* registered again: it is listed last, behind the two that stayed.
C10_Witness ==
    /\ call.op = "list"
    /\ call.outcome.value = <<"reconAgent", "customAgent", "scanAgent">>
    /\ regTime["scanAgent"] > regTime["customAgent"]
    /\ clock >= 4

\* C11: the CallTool handler never fails: for every tool name and every
\* arguments value, an absent arguments object included, it fulfils with a
\* response of exactly one text block, which for an unregistered name is
\* the serialized "Agent not found" envelope.
C11_CallToolAlwaysResponds ==
    call.op = "tools/call" =>
        /\ call.outcome.state = "fulfilled"
        /\ Len(call.outcome.value.content) = 1
        /\ call.outcome.value.content[1].type = "text"
        /\ ~MapHas(call.before, call.id) =>
               call.outcome.value.content[1].text =
                   JsonStringify([success |-> Bool(FALSE),
                                  error |-> Str("Agent not found: " \o call.id)])

\* The input of the claim as stated: a property of the arguments is used
\* when it is supplied, whatever its value.
SuppliedInput(args) ==
    Obj([command |-> IF HasKey(args, "command") THEN args.o["command"]
                     ELSE Str("execute"),
         params |-> IF HasKey(args, "params") THEN args.o["params"]
                    ELSE EmptyObj])

\* The input of the amended claim: a property of the arguments is used
\* when it is truthy.
TruthyInput(args) ==
    Obj([command |-> IF Truthy(Prop(args, "command")) THEN args.o["command"]
                     ELSE Str("execute"),
         params |-> IF Truthy(Prop(args, "params")) THEN args.o["params"]
                    ELSE EmptyObj])

\* The response that wraps what registry.execute(name, input) returns.
ResponseFor(input) ==
    LET r == execute(call.before, call.id, input, call.script) IN
    /\ call.outcome.state = "fulfilled"
    /\ call.invoked = r.invoked
    /\ call.outcome.value =
           [content |-> <<[type |-> "text",
                           text |-> JsonStringify(r.promise.value)]>>]

\* C12 as stated: for a request with an arguments object the handler
\* forwards command = args.command when supplied, "execute" otherwise, and
\* params = args.params when supplied, {} otherwise, and the text is the
\* serialization of the envelope registry.execute returned.
C12_ForwardsSupplied ==
    (call.op = "tools/call" /\ call.input.t = "object") =>
        ResponseFor(SuppliedInput(call.input))

\* C12 amended: the handler forwards command = args.command when that is
\* truthy, "execute" otherwise (also for a supplied empty string), and
\* params = args.params when that is truthy, {} otherwise (also for a
\* supplied null), and the text is the serialization of the envelope
\* registry.execute returned; without an arguments object the handler
\* rejects and registry.execute is not reached.
C12_ForwardsTruthy ==
    call.op = "tools/call" =>
        IF call.input.t = "object"
        THEN ResponseFor(TruthyInput(call.input))
        ELSE call.outcome.state = "rejected" /\ call.invoked = <<>>

\* The scanner was called with an empty command and null params: it ran
\* with command "execute" and params {}.
C12_Witness ==
    /\ call.op = "tools/call"
    /\ call.invoked = <<"scanAgent">>
    /\ call.input = Obj([command |-> Str(""), params |-> Null])
    /\ call.outcome.state = "fulfilled"
    /\ call.outcome.value.content[1].text.text.error =
           Str("Unknown command: execute")

\* The registered units in the order of their registration stamps.
ByStamp ==
    LET registered == {u \in Units : regTime[u] > 0} IN
    [i \in 1..Cardinality(registered) |->
        CHOOSE u \in registered :
            Cardinality({v \in registered : regTime[v] <= regTime[u]}) = i]

ToolNames(tools) == [i \in 1..Len(tools) |-> tools[i].name]

\* C13: a tools/list response has one entry per registered unit, named by
\* the unit's id, in registration order; for a server on which no
\* registration or removal followed the constructor, and for
\* createDefaultRegistry(), the names are security-scan, recon.
C13_ListingMirrorsRegistry ==
    /\ ToolNames(ListTools(createDefaultRegistry)) = <<"security-scan", "recon">>
    /\ call.op = "tools/list" =>
           LET tools == call.outcome.value.tools IN
           /\ ToolNames(tools) = [i \in 1..Len(ByStamp) |-> UnitId(ByStamp[i])]
           /\ Len(tools) = Len(list(agents))
           /\ \A i \in 1..Len(tools) :
                  /\ tools[i].name = UnitId(list(agents)[i])
                  /\ tools[i].description = UnitDescription(list(agents)[i])
                  /\ tools[i].inputSchema = InputSchema
           /\ (clock = 2 /\ regTime["scanAgent"] = 1 /\ regTime["reconAgent"] = 2) =>
                  ToolNames(tools) = <<"security-scan", "recon">>

\* A listing after the scanner was unregistered and the example unit, then
\* a caller-written unit with the scanner's id, were registered.
C13_Witness ==
    /\ call.op = "tools/list"
    /\ ToolNames(call.outcome.value.tools) =
           <<"recon", "example-custom", "security-scan">>
    /\ list(agents) = <<"reconAgent", "customAgent", "otherAgent">>

\* C14: an envelope that registry.execute produces with the shipped units
\* (or for an id not registered) has, with success true, error undefined,
\* and with success false, error a string and data absent or null; none
\* has both a payload and an error.
C14_EnvelopeExclusive ==
    (/\ call.op = "execute"
     /\ call.invoked # <<>> => UnitClass(call.invoked[1]) \in ShippedClasses) =>
        LET envelope == call.outcome.value
            payload == "data" \in JsonKeys(envelope) /\ envelope.data # Null
            failed == "error" \in JsonKeys(envelope)
        IN  /\ call.outcome.state = "fulfilled"
            /\ envelope.success \in {Bool(TRUE), Bool(FALSE)}
            /\ envelope.success = Bool(TRUE) => ~failed
            /\ envelope.success = Bool(FALSE) =>
                   failed /\ envelope.error.t = "string" /\ ~payload
            /\ ~(payload /\ failed)

\* A shipped command succeeded through the registry: the envelope has a
\* payload and its error is undefined.
C14_Witness ==
    /\ call.op = "execute"
    /\ call.invoked = <<"reconAgent">>
    /\ call.outcome.value.success = Bool(TRUE)
    /\ call.outcome.value.error = Undefined
    /\ Prop(call.outcome.value.data, "domain") = Str("example.com")

\* The fault of the unit a registry call reached.
UnitFault ==
    LET c == UnitExecute(call.invoked[1], call.input, call.script) IN
    IF c.kind = "throw" THEN c.reason ELSE c.value.reason

\* C15: when the fault escaping a unit's execute is no Error, or an Error
\* with an empty message, registry.execute answers error "Unknown error";
\* otherwise error is the fault's message; so error is never empty.
C15_UnknownErrorWhenNoMessage ==
    (call.op = "execute" /\ call.invoked # <<>> /\ UnitFaulted) =>
        /\ call.outcome.state = "fulfilled"
        /\ call.outcome.value.error =
               IF UnitFault.t = "error" /\ UnitFault.message # ""
               THEN Str(UnitFault.message) ELSE Str("Unknown error")
        /\ call.outcome.value.error # Str("")

\* No more calls of fn than max(0, n).
InvokedAtMost(n) == tool.invoked <= (IF n < 0 THEN 0 ELSE n)

\* fn is called again only after the attempt before failed, and not at all
\* after an attempt succeeded.
InvokedAfterFailure ==
    /\ tool.invoked <= tool.failed + 1
    /\ tool.pc = "racing" => tool.invoked = tool.failed + 1
    /\ tool.pc = "returned" => tool.invoked = tool.failed + 1

\* execute returns what the operation of its last attempt fulfilled with.
ReturnsResultUnchanged ==
    tool.pc = "returned" =>
        /\ tool.lastSettle.by = "operation"
        /\ tool.lastSettle.promise.state = "fulfilled"
        /\ tool.outcome = Normal(tool.lastSettle.promise.value)

\* C16: execute calls the operation at most `retries` times, the executor's
\* configured retry count (this.config.retries; none when it is negative);
\* it calls it again only after the attempt before failed, stops at the
\* first attempt that succeeds and returns that attempt's result unchanged.
C16_AtMostRetriesAttempts ==
    /\ InvokedAtMost(tool.config.retries.n)
    /\ InvokedAfterFailure
    /\ ReturnsResultUnchanged

\* A retry count of 3: two attempts failed, the third one's result is
\* returned.
C16_Witness ==
    /\ tool.config.retries = Num(3)
    /\ tool.pc = "returned"
    /\ tool.invoked = 3
    /\ tool.failed = 2
    /\ tool.outcome = Normal(Str("report"))

\* min(1000 * 2^i, 10000)
ExpectedWait(i) == IF 1000 * 2^i < 10000 THEN 1000 * 2^i ELSE 10000

\* The index of the last attempt the loop makes.
LastAttempt == Retries(tool.config) - 1

\* C17: after the failed attempt i that is not the last one, execute waits
\* min(1000 * 2^i, 10000) ms before it starts attempt i + 1; no wait follows
\* the last attempt or a successful one, and no wait exceeds 10000 ms.
C17_BackoffDelays ==
    /\ \A k \in 1..Len(tool.waits) :
           tool.waits[k] = ExpectedWait(k - 1) /\ tool.waits[k] <= 10000
    /\ tool.pc = "sleeping" =>
           /\ tool.attempt < LastAttempt
           /\ tool.failed = tool.attempt + 1
           /\ tool.sleeping = ExpectedWait(tool.attempt)
           /\ Len(tool.waits) = tool.attempt + 1
    /\ tool.pc = "racing" => Len(tool.waits) = tool.attempt
    /\ tool.pc = "returned" => Len(tool.waits) = tool.failed
    /\ (tool.pc \in {"for", "threw"} /\ tool.attempt > LastAttempt
            /\ tool.failed > 0) =>
           Len(tool.waits) = tool.failed - 1

\* All six attempts failed: five waits, the last one capped.
C17_Witness ==
    /\ tool.pc = "threw"
    /\ tool.failed = 6
    /\ tool.waits = <<1000, 2000, 4000, 8000, 10000>>

\* The fault that ended the last attempt, as the operation or the timer
\* raised it.
LastObserved == tool.lastSettle.promise.reason

\* execute raised after at least one attempt, all of them failed.
AllAttemptsFailed == tool.pc = "threw" /\ tool.failed > 0

\* C18 as claimed: when every attempt fails, execute raises the fault
\* observed on the last attempt, not a substitute for it.
C18_RaisesLastFault ==
    AllAttemptsFailed => tool.outcome = Throw(LastObserved)

\* C18: when every attempt fails, execute raises the fault observed on the
\* last attempt if it is an Error, and Error('Unknown error') in its place
\* if it is not.
C18_RaisesLastFaultAsError ==
    AllAttemptsFailed =>
        /\ tool.lastSettle.promise.state = "rejected"
        /\ tool.outcome = Throw(IF LastObserved.t = "error" THEN LastObserved
                                ELSE Error("Unknown error"))

\* Three attempts failed, the last with a fault that is not an Error.
C18_Witness ==
    /\ AllAttemptsFailed
    /\ tool.failed = 3
    /\ LastObserved = Str("boom")
    /\ tool.outcome = Throw(Error("Unknown error"))

\* execute has returned or raised.
Settled == tool.pc \in {"returned", "threw"}

ExecutionFailed == Throw(Error("Execution failed"))

\* C19 as claimed: for every ToolConfig at least one attempt is made and
\* Error('Execution failed') is never raised.
C19_ExecutionFailedUnreachable ==
    Settled => tool.invoked >= 1 /\ tool.outcome # ExecutionFailed

\* C19: Error('Execution failed') is raised exactly when no attempt is made,
\* which is when the retry count the executor holds is below 1 (a negative
\* count); otherwise at least one attempt is made and execute returns a
\* result or raises the fault recorded from an attempt.
C19_ExecutionFailedOnlyWithoutAttempt ==
    Settled =>
        /\ tool.invoked = 0 <=> tool.config.retries.n < 1
        /\ tool.invoked = 0 <=> tool.outcome = ExecutionFailed
        /\ tool.invoked >= 1 =>
               \/ tool.pc = "returned"
               \/ /\ tool.failed >= 1
                  /\ tool.lastError # Undefined
                  /\ tool.outcome = Throw(tool.lastError)

\* A retry count of -1: no attempt, the fallback fault.
C19_Witness ==
    /\ tool.pc = "threw"
    /\ Prop(tool.supplied, "retries") = Num(-1)
    /\ tool.invoked = 0
    /\ tool.outcome = ExecutionFailed

\* C20: each attempt races the operation against a timer of `timeout` ms
\* (this.config.timeout).  If the timer fires first, the attempt fails with
\* Error('Timeout') and counts as a failed attempt; if the operation settles
\* first, its outcome is the attempt's outcome.
C20_RaceWithTimer ==
    /\ (tool.pc = "racing" /\ tool.race.state = "pending") =>
           tool.timer = Timer(tool.config.timeout.n)
    /\ tool.lastSettle.by = "timer" =>
           /\ tool.lastSettle.promise = Rejected(Error("Timeout"))
           /\ tool.lastFault = Error("Timeout")
           /\ tool.lastError = Error("Timeout")
           /\ tool.pc # "returned"
           /\ tool.pc = "racing" => tool.invoked = tool.failed + 1
           /\ tool.pc # "racing" => tool.invoked = tool.failed
    /\ (tool.lastSettle.by = "operation"
            /\ tool.lastSettle.promise.state = "fulfilled") =>
           /\ tool.pc = "returned"
           /\ tool.outcome = Normal(tool.lastSettle.promise.value)
    /\ (tool.lastSettle.by \in {"operation", "throw"}
            /\ tool.lastSettle.promise.state = "rejected") =>
           /\ tool.lastFault = tool.lastSettle.promise.reason
           /\ tool.pc # "returned"

\* The first attempt timed out after 5000 ms, its operation is still
\* running, and the second attempt is racing a timer of 5000 ms.
C20_Witness ==
    /\ tool.pc = "racing"
    /\ tool.attempt = 1
    /\ tool.lastSettle.by = "timer"
    /\ tool.abandoned = 1
    /\ tool.waits = <<1000>>
    /\ tool.timer = Timer(5000)

\* Calls of fn whose promise has not settled: those left behind by timed-out
\* attempts and the one the current attempt awaits.
InFlight ==
    tool.abandoned
    + (IF tool.pc = "racing" /\ tool.race.state = "pending" THEN 1 ELSE 0)

\* What execute holds: its position, locals, awaited race and completion.
ExecuteView ==
    <<tool.pc, tool.attempt, tool.lastError, tool.race, tool.timer,
      tool.outcome, tool.invoked, tool.failed, tool.lastSettle, tool.waits>>

\* C21: a timed-out attempt leaves its operation running, so the operation
\* may be called again while earlier calls are in flight, up to `retries`
\* of them at once; when an abandoned call settles later, nothing execute
\* holds changes: its result is not the result of a later attempt or of
\* execute.
C21_AbandonedRunsOn ==
    /\ [](/\ InFlight <= tool.invoked
          /\ InFlight <= (IF tool.config.retries.n < 0 THEN 0
                          ELSE tool.config.retries.n))
    /\ [][/\ (tool'.failed = tool.failed + 1 /\ tool'.lastSettle.by = "timer")
              => tool'.abandoned = tool.abandoned + 1
          /\ tool'.abandoned < tool.abandoned => ExecuteView' = ExecuteView]_vars

\* A retry count of 3, two attempts timed out: the third call of fn is made
\* with the first two still running.
C21_Witness ==
    /\ tool.config.retries = Num(3)
    /\ tool.pc = "racing"
    /\ tool.race.state = "pending"
    /\ tool.invoked = 3
    /\ tool.abandoned = 2
    /\ InFlight = 3

\* The setting the configuration gives for key: the value supplied, the
\* default when the key is omitted.
Configured(key, default) ==
    IF Prop(tool.supplied, key) = Undefined THEN default
    ELSE Prop(tool.supplied, key)

\* C22: the executor uses the timeout and retry count its configuration
\* gives, and the defaults (30000 ms, 3, verbose off) exactly when the
\* setting is omitted; a retry count of n supplied makes at most n attempts.
C22_DefaultsExactlyWhenOmitted ==
    /\ InvokedAtMost(Configured("retries", Num(3)).n)
    /\ (tool.pc = "racing" /\ tool.race.state = "pending") =>
           tool.timer = Timer(Configured("timeout", Num(30000)).n)
    /\ ~Truthy(Configured("verbose", Bool(FALSE))) => tool.console = <<>>

\* What the call the caller looks at would have produced had it been the
\* only call: execute run to completion against the Map of its own issue.
RunAlone ==
    execute(call.before, call.id, call.input, call.script).promise

\* The unit the call was dispatched to is one of the shipped classes.
DispatchedToShipped ==
    /\ call.invoked # <<>>
    /\ UnitClass(call.invoked[1]) # "Agent"

\* C23: whatever other execute calls were pending at the same time, on the
\* same unit or on another, a call resolves to the envelope it would have
\* produced alone; for a shipped unit that envelope is a function of the
\* call's id and input only.
C23_PendingCallsIndependent ==
    call.op = "execute" =>
        /\ call.outcome = RunAlone
        /\ DispatchedToShipped =>
               call.outcome =
                   execute(createDefaultRegistry, call.id, call.input, NoScript).promise

\* A port scan settles with its own result while another call on the same
\* unit, with another input, is still pending.
C23_Witness ==
    /\ call.op = "execute"
    /\ call.invoked = <<"scanAgent">>
    /\ call.outcome.state = "fulfilled"
    /\ call.outcome.value.success = Bool(TRUE)
    /\ Len(pending) >= 1
    /\ pending[1].id = call.id
    /\ pending[1].invoked = call.invoked
    /\ pending[1].awaiting
    /\ pending[1].input # call.input

\* The names in the capabilities list of the unit the call reached.
Advertised == {Capabilities(call.invoked[1])[i] :
                   i \in 1..Len(Capabilities(call.invoked[1]))}

\* The call was answered by the default branch of the dispatch switch.
AnsweredUnknown ==
    /\ call.outcome.state = "fulfilled"
    /\ call.outcome.value.success = Bool(FALSE)
    /\ call.outcome.value.error =
           Str("Unknown command: " \o CommandOf(call.input))

\* C24: a SecurityScanAgent or a ReconAgent answers "Unknown command: C"
\* for a command name C exactly when C is not in its capabilities list.
C24_CapabilitiesMatchDispatch ==
    (ReachedUnit
     /\ UnitClass(call.invoked[1]) \in {"SecurityScanAgent", "ReconAgent"}) =>
        (AnsweredUnknown <=> CommandOf(call.input) \notin Advertised)

\* The scanner, called on the unit itself with a capability of the recon
\* unit and that command's parameter, answers that the command is unknown.
C24_Witness ==
    /\ call.op = "unit.execute"
    /\ call.invoked = <<"scanAgent">>
    /\ call.input = Obj([command |-> Str("dns-lookup"),
                         params |-> Obj([domain |-> Str("example.com")])])
    /\ AnsweredUnknown
    /\ "dns-lookup" \notin Advertised

\* params of the call validated is absent (not there, or null) or a mapping.
ParamsValidated == Prop(validation.input, "params")

ParamsAbsent == ParamsValidated \in {Undefined, Null}

\* The places in requiredParams of the names that are no key of the mapping.
MissingAt ==
    {i \in 1..Len(validation.requiredParams) :
        validation.requiredParams[i] \notin DOMAIN ParamsValidated.o}

FirstMissing ==
    validation.requiredParams[CHOOSE i \in MissingAt : \A j \in MissingAt : i <= j]

\* C25: validateInput(input, requiredNames) throws "Missing required
\* parameters" when the parameter mapping is absent, whatever names are
\* required; throws "Missing required parameter: N" for the first required
\* name N that is not a key of the mapping; and returns otherwise, whatever
\* the values of the keys.
C25_PresenceOnly ==
    (validation.pc = "returned"
     /\ (ParamsAbsent \/ ParamsValidated.t = "object")) =>
        validation.outcome =
            IF ParamsAbsent THEN Throw(Error("Missing required parameters"))
            ELSE IF MissingAt # {}
            THEN Throw(Error("Missing required parameter: " \o FirstMissing))
            ELSE Normal(Undefined)

\* C26: get, list and execute leave the Map as it was, entries and order,
\* whatever execute produced; a step that changes the Map is a register or
\* an unregister.
C26_OnlyRegisterAndUnregisterMutate ==
    /\ [](call.op \in {"get", "list", "execute"} => agents = call.before)
    /\ [][agents' # agents => call'.op \in {"register", "unregister"}]_vars

\* With two units registered, execute reached a unit that threw, answered
\* with a failure envelope, and the Map is what it was.
C26_Witness ==
    /\ call.op = "execute"
    /\ call.invoked = <<"otherAgent">>
    /\ call.script.how = "throw"
    /\ call.outcome.value.success = Bool(FALSE)
    /\ Len(call.before) = 2
    /\ agents = call.before

\* The unit under the call's id when the call was issued, and now that it
\* has settled.
TargetAtIssue == get(call.before, call.id)

TargetNow == get(agents, call.id)

AgentNotFound ==
    /\ call.outcome.state = "fulfilled"
    /\ call.outcome.value.error = Str("Agent not found: " \o call.id)

\* C27: a pending execute whose unit was unregistered, or replaced under
\* the same id, before it settled completes with the result of the unit
\* registered when it was issued, and not with "Agent not found".
C27_TargetResolvedAtCall ==
    (call.op = "execute" /\ Truthy(TargetAtIssue) /\ TargetNow # TargetAtIssue) =>
        /\ call.invoked = <<TargetAtIssue.ref>>
        /\ call.outcome =
               AsyncResult(TryAwaitExecute(
                   UnitExecute(TargetAtIssue.ref, call.input, call.script)))
        /\ ~AgentNotFound

\* A port scan issued to the scanner settles with the scanner's result
\* after the scanner was unregistered and another unit registered under
\* its id.
C27_Witness ==
    /\ call.op = "execute"
    /\ TargetAtIssue = AgentRef("scanAgent")
    /\ TargetNow = AgentRef("otherAgent")
    /\ call.invoked = <<"scanAgent">>
    /\ call.outcome.value.success = Bool(TRUE)
    /\ Prop(call.outcome.value.data, "target") = Str("192.168.1.1")

\* The bounds the claim gives on a call that has settled: the attempts
\* made and the backoff waits slept.
WithinRetries ==
    LET n == IF Retries(tool.config) < 1 THEN 0 ELSE Retries(tool.config) IN
    /\ tool.invoked <= n
    /\ Len(tool.waits) <= (IF n = 0 THEN 0 ELSE n - 1)

\* C28: with timers that fire, a call of execute settles, whether or not
\* the operation ever does: it returns or raises after at most `retries`
\* attempts and `retries - 1` backoff waits.
C28_EventuallySettles ==
    /\ [](Settled => WithinRetries)
    /\ (tool.pc # "idle") ~> Settled

\* Three attempts, each ended by its timer, with two waits between them:
\* execute has raised the timeout and the three operations are still
\* running.
C28_Witness ==
    /\ tool.pc = "threw"
    /\ tool.config.retries = Num(3)
    /\ tool.invoked = 3
    /\ tool.abandoned = 3
    /\ Len(tool.waits) = 2
    /\ tool.lastSettle.by = "timer"
    /\ tool.outcome = Throw(Error("Timeout"))

=============================================================================
